---- MODULE Spec2Model ----
(***************************************************************************)
(* Prakvedaa CRM backend: users, patients, consultations, bearer tokens    *)
(* and the role / assignment based access rules of the request handlers.   *)
(*                                                                         *)
(* Strings that the code transforms (emails, contacts, notes, status) are  *)
(* sequences of one-character strings.  An optional value (Python None or  *)
(* a value) is a sequence of length 0 or 1: None == <<>>, Some(x) == <<x>>.*)
(***************************************************************************)
EXTENDS Integers, Sequences, FiniteSets, TLC

VARIABLES users, patients, consultations, token, now, inflight, resp

vars == <<users, patients, consultations, token, now, inflight, resp>>

-----------------------------------------------------------------------------
(* Bounds of the model *)

MaxUsers == 3
MaxPatients == 2
MaxCons == 2
MaxClock == 120
MaxInflight == 2
\* patients in the sharing, link and update scenarios
MaxSharePatients == 1
\* consultations in the sharing and link scenarios
MaxShareCons == 1
\* minutes the clock advances in one step
TickMinutes == 30

-----------------------------------------------------------------------------
(* Optional values and string primitives *)

None == <<>>
Some(x) == <<x>>
IsNone(o) == Len(o) = 0
Get(o) == o[1]

UpperChars == <<"A", "B", "C", "D", "N", "O", "P", "R", "S", "X">>
LowerChars == <<"a", "b", "c", "d", "n", "o", "p", "r", "s", "x">>

\* str.lower() on one character
LowerChar(c) ==
  IF \E i \in 1..Len(UpperChars) : UpperChars[i] = c
    THEN LowerChars[CHOOSE i \in 1..Len(UpperChars) : UpperChars[i] = c]
    ELSE c

\* str.lower()
Lower(s) == [i \in 1..Len(s) |-> LowerChar(s[i])]

\* str.strip(): drop leading and trailing whitespace
Strip(s) ==
  LET nonblank == {i \in 1..Len(s) : s[i] # " "}
  IN IF nonblank = {} THEN <<>>
     ELSE LET lo == CHOOSE i \in nonblank : \A j \in nonblank : i <= j
              hi == CHOOSE i \in nonblank : \A j \in nonblank : j <= i
          IN SubSeq(s, lo, hi)

\* str.replace(c, ""): drop every occurrence of the character c
RECURSIVE RemoveChar(_, _)
RemoveChar(s, c) ==
  IF s = <<>> THEN <<>>
  ELSE IF Head(s) = c THEN RemoveChar(Tail(s), c)
       ELSE <<Head(s)>> \o RemoveChar(Tail(s), c)

\* payload.email.lower().strip()
NormalizeEmail(e) == Strip(Lower(e))

\* rows of a table as a set
Rows(table) == {table[i] : i \in 1..Len(table)}

\* order_by(id.desc()): tables are kept in id order, so the result is reversed
Desc(rows) == [i \in 1..Len(rows) |-> rows[Len(rows) + 1 - i]]

\* query(T).filter(T.id == id).first()
ById(table, id) == IF id \in 1..Len(table) THEN Some(table[id]) ELSE None

-----------------------------------------------------------------------------
(* utils.py: password hashing and token issuance *)

ACCESS_TOKEN_EXPIRE_MINUTES == 60

\* timedelta(minutes=60) passed by login
LoginExpireMinutes == 60

hash_password(plain) == [scheme |-> "pbkdf2_sha256", digest |-> plain]

verify_password(plain, hashed) == hashed = hash_password(plain)

\* a signed JWT: the claims and whether the signature verifies under SECRET_KEY
create_access_token(data, expires_delta) ==
  LET expire == now + (IF IsNone(expires_delta) THEN ACCESS_TOKEN_EXPIRE_MINUTES
                       ELSE Get(expires_delta))
  IN [sub |-> Some(data.sub), role |-> data.role, exp |-> expire, signed |-> TRUE]

\* a bearer value whose signature does not verify
GarbageToken == [sub |-> None, role |-> "sales", exp |-> 0, signed |-> FALSE]

\* a well-signed token whose subject is no registered user
StaleToken ==
  [sub |-> Some(<<"z", "@", "x">>), role |-> "sales", exp |-> MaxClock + 1, signed |-> TRUE]

\* a well-signed token with no "sub" claim
NoSubToken == [sub |-> None, role |-> "sales", exp |-> MaxClock + 1, signed |-> TRUE]

\* jwt.decode without the expiry check
jwt_decode_ok_no_exp(tok) == tok.signed

\* jwt.decode(token, SECRET_KEY): JWTError on a bad signature or an elapsed exp
jwt_decode_ok(tok) == tok.signed /\ ~(tok.exp < now)

-----------------------------------------------------------------------------
(* HTTP outcomes *)

Unauthorized == 401
Forbidden == 403
NotFound == 404
BadRequest == 400
Created == 201
Ok == 200

\* raise HTTPException(status_code, detail)
Err(status, detail) == [ok |-> FALSE, status |-> status, detail |-> detail]

-----------------------------------------------------------------------------
(* Security: resolving the caller *)

UserByEmail(email) ==
  IF \E i \in 1..Len(users) : users[i].email = email
    THEN Some(users[CHOOSE i \in 1..Len(users) : users[i].email = email])
    ELSE None

\* creds is None (no Authorization header) or Some(token)
get_current_user(creds) ==
  IF IsNone(creds) THEN Err(Unauthorized, "Missing or invalid token")
  ELSE LET tok == Get(creds) IN
    IF ~jwt_decode_ok(tok) THEN Err(Unauthorized, "Invalid or expired token")
    ELSE IF IsNone(tok.sub) THEN Err(Unauthorized, "Invalid token payload")
    ELSE LET user == UserByEmail(Get(tok.sub)) IN
      IF IsNone(user) THEN Err(Unauthorized, "User not found")
      ELSE [ok |-> TRUE, user |-> Get(user)]

\* what a client can put in the Authorization header
Credentials == {None} \cup (IF IsNone(token) THEN {} ELSE {token})

\* the bearer token the client holds, if it holds one
Held == IF IsNone(token) THEN {} ELSE {token}

\* the same, with a bearer value that is no valid token
AnyCredentials ==
  Credentials \cup {Some(GarbageToken), Some(StaleToken), Some(NoSubToken)}

-----------------------------------------------------------------------------
(* Auth handlers *)

\* the User row with the email stored as given
NewUserRawEmail(payload) ==
  [name |-> payload.name,
   email |-> payload.email,
   password_hash |-> hash_password(payload.password),
   role |-> payload.role]

\* the User row register() builds from the payload
NewUser(payload) ==
  [name |-> payload.name,
   email |-> NormalizeEmail(payload.email),
   password_hash |-> hash_password(payload.password),
   role |-> payload.role]

\* db.commit() of an added User: the unique index on users.email decides
CommitUser(user) ==
  IF \E i \in 1..Len(users) : users[i].email = user.email
    THEN Err(BadRequest, "Email already registered")
    ELSE [ok |-> TRUE, status |-> Created,
          user |-> [id |-> Len(users) + 1] @@ user]

register(payload) == CommitUser(NewUser(payload))

Register(payload) ==
  /\ Len(users) < MaxUsers
  /\ LET r == register(payload) IN
       /\ users' = IF r.ok THEN Append(users, r.user) ELSE users
       /\ resp' = [op |-> "register", args |-> payload, status |-> r.status,
                   body |-> IF r.ok THEN r.user ELSE r.detail]
  /\ UNCHANGED <<patients, consultations, token, now, inflight>>

\* a request that has built its User and not yet committed
RegisterBegin(sid, payload) ==
  /\ \A r \in inflight : r.sid # sid
  /\ inflight' = inflight \cup {[sid |-> sid, payload |-> payload, user |-> NewUser(payload)]}
  /\ resp' = [op |-> "register_begin", sid |-> sid]
  /\ UNCHANGED <<users, patients, consultations, token, now>>

\* its db.commit(), with the rollback and the 400 on IntegrityError
RegisterCommit(sid) ==
  /\ Len(users) < MaxUsers
  /\ \E req \in inflight :
       /\ req.sid = sid
       /\ LET r == CommitUser(req.user) IN
            /\ users' = IF r.ok THEN Append(users, r.user) ELSE users
            /\ resp' = [op |-> "register", args |-> req.payload, status |-> r.status,
                        body |-> IF r.ok THEN r.user ELSE r.detail]
       /\ inflight' = inflight \ {req}
  /\ UNCHANGED <<patients, consultations, token, now>>

login(payload) ==
  LET user == UserByEmail(NormalizeEmail(payload.email)) IN
    IF IsNone(user) \/ ~verify_password(payload.password, Get(user).password_hash)
      THEN Err(BadRequest, "Invalid email or password")
      ELSE [ok |-> TRUE, status |-> Ok,
            access_token |-> create_access_token(
               [sub |-> Get(user).email, role |-> Get(user).role],
               Some(LoginExpireMinutes))]

Login(payload) ==
  /\ LET r == login(payload) IN
       /\ token' = IF r.ok THEN Some(r.access_token) ELSE token
       /\ resp' = [op |-> "login", args |-> payload, status |-> r.status,
                   body |-> IF r.ok THEN r.access_token ELSE r.detail]
  /\ UNCHANGED <<users, patients, consultations, now, inflight>>

\* time passes
Tick ==
  /\ now + TickMinutes <= MaxClock
  /\ now' = now + TickMinutes
  /\ resp' = [op |-> "tick"]
  /\ UNCHANGED <<users, patients, consultations, token, inflight>>

-----------------------------------------------------------------------------
(* Patients *)

\* the response of an authenticated handler: who called, what was asked,
\* the HTTP status and the body (the detail string on an error)
Response(op, creds, args, r) ==
  [op |-> op, creds |-> creds, args |-> args, status |-> r.status,
   body |-> IF r.ok THEN r.body ELSE r.detail]

create_patient(creds, payload) ==
  LET auth == get_current_user(creds) IN
  IF ~auth.ok THEN auth
  ELSE IF auth.user.role # "sales"
    THEN Err(Forbidden, "Only sales role can create patients")
  ELSE [ok |-> TRUE, status |-> Ok,
        body |-> [id |-> Len(patients) + 1,
                  name |-> payload.name,
                  age |-> payload.age,
                  contact |-> payload.contact,
                  notes |-> payload.notes,
                  created_by |-> auth.user.email,
                  assigned_doctor_email |-> None]]

CreatePatient(creds, payload) ==
  /\ Len(patients) < MaxPatients
  /\ LET r == create_patient(creds, payload) IN
       /\ patients' = IF r.ok THEN Append(patients, r.body) ELSE patients
       /\ resp' = Response("create_patient", creds, payload, r)
  /\ UNCHANGED <<users, consultations, token, now, inflight>>

\* the rows a doctor's filter keeps
AssignedTo(table, email) ==
  LET keep(p) == p.assigned_doctor_email = Some(email) IN SelectSeq(table, keep)

\* list_patients without the doctor's filter
list_patients_unfiltered(creds) ==
  LET auth == get_current_user(creds) IN
  IF ~auth.ok THEN auth
  ELSE IF auth.user.role \in {"sales", "doctor"}
    THEN [ok |-> TRUE, status |-> Ok, body |-> Desc(patients)]
  ELSE Err(Forbidden, "Role not permitted")

list_patients(creds) ==
  LET auth == get_current_user(creds) IN
  IF ~auth.ok THEN auth
  ELSE IF auth.user.role = "sales"
    THEN [ok |-> TRUE, status |-> Ok, body |-> Desc(patients)]
  ELSE IF auth.user.role = "doctor"
    THEN [ok |-> TRUE, status |-> Ok,
          body |-> Desc(AssignedTo(patients, auth.user.email))]
  ELSE Err(Forbidden, "Role not permitted")

ListPatients(creds) ==
  /\ resp' = Response("list_patients", creds, None, list_patients(creds))
  /\ UNCHANGED <<users, patients, consultations, token, now, inflight>>

\* assign_patient accepting any registered user as the doctor
assign_patient_any_user(creds, payload) ==
  LET auth == get_current_user(creds) IN
  IF ~auth.ok THEN auth
  ELSE IF auth.user.role # "sales"
    THEN Err(Forbidden, "Only sales can assign patients")
  ELSE LET patient == ById(patients, payload.patient_id) IN
    IF IsNone(patient) THEN Err(NotFound, "Patient not found")
    ELSE LET doctor == UserByEmail(NormalizeEmail(payload.doctor_email)) IN
      IF IsNone(doctor)
        THEN Err(BadRequest, "Doctor email invalid or not a doctor")
      ELSE [ok |-> TRUE, status |-> Ok,
            body |-> [Get(patient) EXCEPT !.assigned_doctor_email = Some(Get(doctor).email)]]

\* assigning the doctor_email of the payload as it was sent
assign_patient_raw_email(creds, payload) ==
  LET auth == get_current_user(creds) IN
  IF ~auth.ok THEN auth
  ELSE IF auth.user.role # "sales"
    THEN Err(Forbidden, "Only sales can assign patients")
  ELSE LET patient == ById(patients, payload.patient_id) IN
    IF IsNone(patient) THEN Err(NotFound, "Patient not found")
    ELSE LET doctor == UserByEmail(NormalizeEmail(payload.doctor_email)) IN
      IF IsNone(doctor) \/ Get(doctor).role # "doctor"
        THEN Err(BadRequest, "Doctor email invalid or not a doctor")
      ELSE [ok |-> TRUE, status |-> Ok,
            body |-> [Get(patient) EXCEPT !.assigned_doctor_email = Some(payload.doctor_email)]]

assign_patient(creds, payload) ==
  LET auth == get_current_user(creds) IN
  IF ~auth.ok THEN auth
  ELSE IF auth.user.role # "sales"
    THEN Err(Forbidden, "Only sales can assign patients")
  ELSE LET patient == ById(patients, payload.patient_id) IN
    IF IsNone(patient) THEN Err(NotFound, "Patient not found")
    ELSE LET doctor == UserByEmail(NormalizeEmail(payload.doctor_email)) IN
      IF IsNone(doctor) \/ Get(doctor).role # "doctor"
        THEN Err(BadRequest, "Doctor email invalid or not a doctor")
      ELSE [ok |-> TRUE, status |-> Ok,
            body |-> [Get(patient) EXCEPT !.assigned_doctor_email = Some(Get(doctor).email)]]

AssignPatient(creds, payload) ==
  /\ LET r == assign_patient(creds, payload) IN
       /\ patients' = IF r.ok THEN [patients EXCEPT ![r.body.id] = r.body] ELSE patients
       /\ resp' = Response("assign_patient", creds, payload, r)
  /\ UNCHANGED <<users, consultations, token, now, inflight>>

\* A request of assign_patient that has read the patient and the doctor in
\* its own session (get_db gives each request its own Session) and has set
\* patient.assigned_doctor_email; a request that fails answers at once.
\* loaded is the value of the column as the session read it.
AssignBegin(sid, creds, payload) ==
  /\ \A r \in inflight : r.sid # sid
  /\ LET r == assign_patient(creds, payload) IN
       IF r.ok
         THEN /\ inflight' = inflight \cup
                   {[sid |-> sid, creds |-> creds, payload |-> payload,
                     patient_id |-> r.body.id,
                     loaded |-> patients[r.body.id].assigned_doctor_email,
                     doctor |-> Get(r.body.assigned_doctor_email)]}
              /\ resp' = [op |-> "assign_begin", sid |-> sid]
         ELSE /\ inflight' = inflight
              /\ resp' = Response("assign_patient", creds, payload, r)
  /\ UNCHANGED <<users, patients, consultations, token, now>>

\* the row after the session's flush: the unit of work emits
\* UPDATE patients SET assigned_doctor_email = ... only when the value set
\* differs from the value the session loaded; set to the loaded value, the
\* attribute has no net change and the flush writes nothing
FlushAssign(row, req) ==
  IF req.loaded # Some(req.doctor)
    THEN [row EXCEPT !.assigned_doctor_email = Some(req.doctor)]
    ELSE row

\* its db.commit() and db.refresh(patient): the response is the row as stored
AssignCommit(sid) ==
  /\ \E req \in inflight :
       /\ req.sid = sid
       /\ LET row == FlushAssign(patients[req.patient_id], req) IN
            /\ patients' = [patients EXCEPT ![req.patient_id] = row]
            /\ resp' = [op |-> "assign_patient", creds |-> req.creds,
                        args |-> req.payload, status |-> Ok, body |-> row,
                        sid |-> sid]
       /\ inflight' = inflight \ {req}
  /\ UNCHANGED <<users, consultations, token, now>>

-----------------------------------------------------------------------------
(* Consultations *)

Pending == <<"p", "e", "n", "d", "i", "n", "g">>

\* f"https://meet.jit.si/Prakvedaa-{secrets.token_urlsafe(6)}"
VideoUrl(room) == <<"https://meet.jit.si/", "Prakvedaa-">> \o room

\* schedule_consultation without the doctor's assignment check
schedule_consultation_any_doctor(creds, payload, room) ==
  LET auth == get_current_user(creds) IN
  IF ~auth.ok THEN auth
  ELSE LET patient == ById(patients, payload.patient_id) IN
    IF IsNone(patient) THEN Err(NotFound, "Patient not found")
    ELSE IF auth.user.role \notin {"sales", "doctor"}
      THEN Err(Forbidden, "Not allowed to schedule consultations")
    ELSE [ok |-> TRUE, status |-> Ok,
          body |-> [id |-> Len(consultations) + 1,
                    patient_id |-> Get(patient).id,
                    scheduled_at |-> payload.scheduled_at,
                    video_url |-> VideoUrl(room),
                    created_by |-> auth.user.email,
                    status |-> Pending,
                    doctor_notes |-> None]]

\* room is the value secrets.token_urlsafe(6) returns in this call
schedule_consultation(creds, payload, room) ==
  LET auth == get_current_user(creds) IN
  IF ~auth.ok THEN auth
  ELSE LET patient == ById(patients, payload.patient_id) IN
    IF IsNone(patient) THEN Err(NotFound, "Patient not found")
    ELSE IF /\ auth.user.role = "doctor"
            /\ Get(patient).assigned_doctor_email # Some(auth.user.email)
      THEN Err(Forbidden, "Doctor not assigned to this patient")
    ELSE IF auth.user.role \notin {"sales", "doctor"}
      THEN Err(Forbidden, "Not allowed to schedule consultations")
    ELSE [ok |-> TRUE, status |-> Ok,
          body |-> [id |-> Len(consultations) + 1,
                    patient_id |-> Get(patient).id,
                    scheduled_at |-> payload.scheduled_at,
                    video_url |-> VideoUrl(room),
                    created_by |-> auth.user.email,
                    status |-> Pending,
                    doctor_notes |-> None]]

ScheduleConsultation(creds, payload, room) ==
  /\ Len(consultations) < MaxCons
  /\ LET r == schedule_consultation(creds, payload, room) IN
       /\ consultations' = IF r.ok THEN Append(consultations, r.body) ELSE consultations
       /\ resp' = Response("schedule_consultation", creds, payload, r)
  /\ UNCHANGED <<users, patients, token, now, inflight>>

\* join(Patient, Patient.id == Consultation.patient_id)
\*   .filter(Patient.assigned_doctor_email == email)
ConsultationsOf(table, email) ==
  LET keep(c) == \E i \in 1..Len(patients) :
                    /\ patients[i].id = c.patient_id
                    /\ patients[i].assigned_doctor_email = Some(email)
  IN SelectSeq(table, keep)

\* list_consultations filtering a doctor's rows by who scheduled them
list_consultations_by_creator(creds) ==
  LET auth == get_current_user(creds) IN
  IF ~auth.ok THEN auth
  ELSE IF auth.user.role = "sales"
    THEN [ok |-> TRUE, status |-> Ok, body |-> Desc(consultations)]
  ELSE IF auth.user.role = "doctor"
    THEN LET keep(c) == c.created_by = auth.user.email
         IN [ok |-> TRUE, status |-> Ok, body |-> Desc(SelectSeq(consultations, keep))]
  ELSE Err(Forbidden, "Role not permitted")

list_consultations(creds) ==
  LET auth == get_current_user(creds) IN
  IF ~auth.ok THEN auth
  ELSE IF auth.user.role = "sales"
    THEN [ok |-> TRUE, status |-> Ok, body |-> Desc(consultations)]
  ELSE IF auth.user.role = "doctor"
    THEN [ok |-> TRUE, status |-> Ok,
          body |-> Desc(ConsultationsOf(consultations, auth.user.email))]
  ELSE Err(Forbidden, "Role not permitted")

ListConsultations(creds) ==
  /\ resp' = Response("list_consultations", creds, None, list_consultations(creds))
  /\ UNCHANGED <<users, patients, consultations, token, now, inflight>>

-----------------------------------------------------------------------------
(* Sharing: message and WhatsApp link *)

Tbd == <<"T", "B", "D">>
NowStr == <<"N", "o", "w">>

\* datetime.isoformat()
IsoFormat(t) == <<"iso", t>>

\* cons.scheduled_at.isoformat() if cons.scheduled_at else "Now"
WhenStr(cons) ==
  IF IsNone(cons.scheduled_at) THEN NowStr ELSE IsoFormat(Get(cons.scheduled_at))

\* patient.assigned_doctor_email or "TBD"
DocStr(patient) ==
  IF IsNone(patient.assigned_doctor_email) \/ Get(patient.assigned_doctor_email) = <<>>
    THEN Tbd ELSE Get(patient.assigned_doctor_email)

\* the consultation and its patient, or the error the three sharing handlers
\* and the update handler raise before doing their work
ConsultationFor(auth, consultation_id, denied) ==
  LET cons == ById(consultations, consultation_id) IN
  IF IsNone(cons) THEN Err(NotFound, "Consultation not found")
  ELSE LET patient == ById(patients, Get(cons).patient_id) IN
    IF IsNone(patient) THEN Err(NotFound, "Patient not found")
    ELSE IF /\ auth.user.role = "doctor"
            /\ Get(patient).assigned_doctor_email # Some(auth.user.email)
      THEN Err(Forbidden, denied)
    ELSE [ok |-> TRUE, cons |-> Get(cons), patient |-> Get(patient)]

share_message(creds, payload) ==
  LET auth == get_current_user(creds) IN
  IF ~auth.ok THEN auth
  ELSE LET f == ConsultationFor(auth, payload.consultation_id,
                                "Not allowed to share this consultation") IN
    IF ~f.ok THEN f
    ELSE [ok |-> TRUE, status |-> Ok,
          body |-> [hello |-> f.patient.name,
                    link |-> f.cons.video_url,
                    doctor |-> DocStr(f.patient),
                    time |-> WhenStr(f.cons),
                    sent_by |-> auth.user.email]]

ShareMessage(creds, payload) ==
  /\ resp' = Response("share_message", creds, payload, share_message(creds, payload))
  /\ UNCHANGED <<users, patients, consultations, token, now, inflight>>

\* urllib.parse.quote_plus(msg)
QuotePlus(msg) == [quoted |-> msg]

\* phone resolution that strips only the "+"
ResolvePhoneKeepSpaces(phone_e164, contact) ==
  IF ~IsNone(phone_e164) /\ Get(phone_e164) # <<>>
    THEN phone_e164
  ELSE IF ~IsNone(contact) /\ Get(contact) # <<>>
    THEN Some(RemoveChar(Get(contact), "+"))
  ELSE None

\* the destination phone: the override, else the contact without "+" and " "
ResolvePhone(phone_e164, contact) ==
  IF ~IsNone(phone_e164) /\ Get(phone_e164) # <<>>
    THEN phone_e164
  ELSE IF ~IsNone(contact) /\ Get(contact) # <<>>
    THEN Some(RemoveChar(RemoveChar(Get(contact), "+"), " "))
  ELSE None

\* the body shared by whatsapp_link and whatsapp_send_direct after the checks
WaLink(f, payload) ==
  LET msg == [hello |-> f.patient.name,
              link |-> f.cons.video_url,
              doctor |-> DocStr(f.patient),
              time |-> WhenStr(f.cons)]
      phone == ResolvePhone(payload.phone_e164, f.patient.contact)
  IN IF IsNone(phone) \/ Get(phone) = <<>>
       THEN Err(BadRequest, "No phone provided and patient.contact empty")
       ELSE [ok |-> TRUE, status |-> Ok,
             body |-> [base |-> "https://wa.me/", phone |-> Get(phone),
                       text |-> QuotePlus(msg)]]

whatsapp_link(creds, payload) ==
  LET auth == get_current_user(creds) IN
  IF ~auth.ok THEN auth
  ELSE LET f == ConsultationFor(auth, payload.consultation_id,
                                "Not allowed to share this consultation") IN
    IF ~f.ok THEN f ELSE WaLink(f, payload)

WhatsappLink(creds, payload) ==
  /\ resp' = Response("whatsapp_link", creds, payload, whatsapp_link(creds, payload))
  /\ UNCHANGED <<users, patients, consultations, token, now, inflight>>

whatsapp_send_direct(creds, payload) ==
  LET auth == get_current_user(creds) IN
  IF ~auth.ok THEN auth
  ELSE LET f == ConsultationFor(auth, payload.consultation_id,
                                "Not allowed to share this consultation") IN
    IF ~f.ok THEN f ELSE WaLink(f, payload)

WhatsappSendDirect(creds, payload) ==
  /\ resp' = Response("whatsapp_send_direct", creds, payload,
                      whatsapp_send_direct(creds, payload))
  /\ UNCHANGED <<users, patients, consultations, token, now, inflight>>

-----------------------------------------------------------------------------
(* Updating a consultation *)

\* notes handling in which an absent value clears the stored notes
NewNotesClearing(notes, stored) ==
  IF IsNone(notes) THEN None
  ELSE IF Get(notes) # <<>> THEN Some(Strip(Get(notes))) ELSE stored

\* notes.strip() if notes else consultation.doctor_notes
NewNotes(notes, stored) ==
  IF IsNone(notes) THEN stored
  ELSE IF Get(notes) # <<>> THEN Some(Strip(Get(notes))) ELSE stored

\* status.lower()
NewStatus(status, stored) ==
  IF IsNone(status) THEN stored ELSE Lower(Get(status))

update_consultation(creds, args) ==
  LET auth == get_current_user(creds) IN
  IF ~auth.ok THEN auth
  ELSE LET f == ConsultationFor(auth, args.consultation_id,
                                "Not allowed to update this consultation") IN
    IF ~f.ok THEN f
    ELSE [ok |-> TRUE, status |-> Ok,
          body |-> [f.cons EXCEPT
                      !.doctor_notes = NewNotes(args.notes, f.cons.doctor_notes),
                      !.status = NewStatus(args.status, f.cons.status)]]

UpdateConsultation(creds, args) ==
  /\ LET r == update_consultation(creds, args) IN
       /\ consultations' = IF r.ok THEN [consultations EXCEPT ![r.body.id] = r.body]
                           ELSE consultations
       /\ resp' = Response("update_consultation", creds, args, r)
  /\ UNCHANGED <<users, patients, token, now, inflight>>

-----------------------------------------------------------------------------
(* Users *)

list_users(creds, role) ==
  LET auth == get_current_user(creds) IN
  IF ~auth.ok THEN auth
  ELSE LET keep(u) == IsNone(role) \/ Get(role) = "" \/ u.role = Get(role)
       IN [ok |-> TRUE, status |-> Ok, body |-> Desc(SelectSeq(users, keep))]

ListUsers(creds, role) ==
  /\ resp' = Response("list_users", creds, role, list_users(creds, role))
  /\ UNCHANGED <<users, patients, consultations, token, now, inflight>>

-----------------------------------------------------------------------------
(* Request inputs *)

EmailA == <<"a", "@", "x">>
EmailB == <<"b", "@", "x">>
EmailC == <<"c", "@", "x">>
EmailD == <<"d", "@", "x">>

Password == <<"p", "w">>
WrongPassword == <<"P", "w">>

RegisterPayload(email, role) ==
  [name |-> <<"N">>, email |-> email, password |-> Password, role |-> role]

RegisterInputs ==
  { RegisterPayload(<<"A", "@", "x">>, "sales"),
    RegisterPayload(EmailB, "doctor"),
    RegisterPayload(<<" ", "C", "@", "x", " ">>, "doctor"),
    RegisterPayload(EmailD, "admin") }

LoginInputs ==
  { [email |-> e, password |-> Password]
      : e \in {EmailA, <<"B", "@", "x", " ">>, EmailC, EmailD} }
  \cup { [email |-> EmailA, password |-> WrongPassword] }

PatientPayload(contact) ==
  [name |-> <<"P">>, age |-> None, contact |-> contact, notes |-> None]

PatientIds == 1..(MaxPatients + 1)

AssignInputs ==
  { [patient_id |-> id, doctor_email |-> e]
      : id \in PatientIds,
        e \in {EmailB, <<"C", "@", "x", " ">>, EmailA} }

\* the inputs of the consultation scenarios: a sales user, two doctors, an admin
ConsRegisterInputs ==
  { RegisterPayload(EmailA, "sales"),
    RegisterPayload(EmailB, "doctor"),
    RegisterPayload(EmailC, "doctor"),
    RegisterPayload(EmailD, "admin") }

ConsLoginInputs ==
  { [email |-> e, password |-> Password] : e \in {EmailA, EmailB, EmailC, EmailD} }

ConsAssignInputs ==
  { [patient_id |-> id, doctor_email |-> e]
      : id \in 1..MaxPatients, e \in {EmailB, EmailC} }

RoomTokens == {<<"r", "1">>, <<"r", "2">>}

ScheduleInputs ==
  { [patient_id |-> id, scheduled_at |-> None] : id \in PatientIds }

\* the inputs of the sharing scenarios: a sales user, a doctor, an admin,
\* one doctor to assign, one room name
ShareRegisterInputs ==
  { RegisterPayload(EmailA, "sales"),
    RegisterPayload(EmailB, "doctor"),
    RegisterPayload(EmailD, "admin") }

ShareLoginInputs ==
  { [email |-> e, password |-> Password] : e \in {EmailA, EmailB, EmailD} }

ShareAssignInputs ==
  { [patient_id |-> id, doctor_email |-> EmailB] : id \in 1..MaxSharePatients }

ShareScheduleInputs ==
  { [patient_id |-> id, scheduled_at |-> None] : id \in 1..MaxSharePatients }

ShareRoom == <<"r", "1">>

ConsIds == 1..(MaxCons + 1)

Contact == <<"+", "9", "1", " ", "9", "8", "7", "6", "5", " ", "4", "3", "2", "1", "0">>

ShareConsIds == 1..(MaxShareCons + 1)

ShareInputs ==
  { [consultation_id |-> id, phone_e164 |-> None] : id \in ShareConsIds }

Completed == <<"C", "o", "m", "p", "l", "e", "t", "e", "d">>

UpdateArgs(id, notes, status) ==
  [consultation_id |-> id, notes |-> notes, status |-> status]

ShareUpdateInputs == { UpdateArgs(id, None, Some(Completed)) : id \in ShareConsIds }

\* the inputs of the update scenario: a sales user and a doctor
UpdateRegisterInputs ==
  { RegisterPayload(EmailA, "sales"), RegisterPayload(EmailB, "doctor") }

UpdateLoginInputs ==
  { [email |-> e, password |-> Password] : e \in {EmailA, EmailB} }

NotesInputs == {None, Some(<<>>), Some(<<" ">>), Some(<<" ", "R", "x", " ">>)}

StatusInputs == {None, Some(Completed)}

UpdateInputs ==
  { UpdateArgs(id, notes, status)
      : id \in ConsIds, notes \in NotesInputs, status \in StatusInputs }

\* the inputs of the link scenario: patients' contacts and phone overrides
ContactInputs ==
  {None, Some(<<>>), Some(<<"+", " ">>), Some(Contact), Some(<<"9", "1">>)}

PhoneInputs == {None, Some(<<>>), Some(<<"4", "4", "7">>)}

LinkInputs ==
  { [consultation_id |-> id, phone_e164 |-> ph]
      : id \in ShareConsIds, ph \in PhoneInputs }

LinkScheduleInputs ==
  { [patient_id |-> id, scheduled_at |-> at]
      : id \in 1..MaxSharePatients, at \in {None, Some(600)} }

\* the inputs of the concurrent assignments: a sales user and two doctors
RaceRegisterInputs ==
  { RegisterPayload(EmailA, "sales"),
    RegisterPayload(EmailB, "doctor"),
    RegisterPayload(EmailC, "doctor") }

\* the inputs of the registration scenario: raw forms of two emails
RegRegisterInputs ==
  { [name |-> v.name, email |-> e, password |-> Password, role |-> v.role]
      : e \in {EmailA, <<" ", "A", "@", "X", " ">>, EmailB},
        v \in {[name |-> <<"N">>, role |-> "sales"], [name |-> <<"O">>, role |-> "doctor"]} }

\* the inputs of the token scenario
AuthRegisterInputs ==
  { RegisterPayload(EmailA, "sales"), RegisterPayload(<<"B", "@", "x">>, "doctor") }

AuthLoginInputs ==
  { [email |-> e, password |-> Password] : e \in {<<"A", "@", "x", " ">>, EmailB} }
  \cup { [email |-> EmailA, password |-> WrongPassword] }

-----------------------------------------------------------------------------
Init ==
  /\ users = <<>>
  /\ patients = <<>>
  /\ consultations = <<>>
  /\ token = None
  /\ now = 0
  /\ inflight = {}
  /\ resp = [op |-> "startup"]

(* Patient registry: registration, login, creating, assigning, listing *)

NextPatients ==
  \/ \E payload \in RegisterInputs : Register(payload)
  \/ \E payload \in LoginInputs : Login(payload)
  \/ \E creds \in Held : CreatePatient(creds, PatientPayload(None))
  \/ \E creds \in Held : ListPatients(creds)
  \/ \E creds \in Held, payload \in AssignInputs : AssignPatient(creds, payload)

SpecPatients == Init /\ [][NextPatients]_vars

(* Scheduling and listing consultations *)

NextCons ==
  \/ \E payload \in ConsRegisterInputs : Register(payload)
  \/ \E payload \in ConsLoginInputs : Login(payload)
  \/ \E creds \in Held : CreatePatient(creds, PatientPayload(None))
  \/ \E creds \in Held, payload \in ConsAssignInputs : AssignPatient(creds, payload)
  \/ \E creds \in Held, payload \in ScheduleInputs, room \in RoomTokens :
        ScheduleConsultation(creds, payload, room)
  \/ \E creds \in Held : ListConsultations(creds)

SpecCons == Init /\ [][NextCons]_vars

(* Sharing and updating consultations *)

NextShare ==
  \/ \E payload \in ShareRegisterInputs : Register(payload)
  \/ \E payload \in ShareLoginInputs : Login(payload)
  \/ \E creds \in Held :
        Len(patients) < MaxSharePatients /\ CreatePatient(creds, PatientPayload(Some(Contact)))
  \/ \E creds \in Held, payload \in ShareAssignInputs : AssignPatient(creds, payload)
  \/ \E creds \in Held, payload \in ShareScheduleInputs :
        Len(consultations) < MaxShareCons /\ ScheduleConsultation(creds, payload, ShareRoom)
  \/ \E creds \in Held, payload \in ShareInputs : ShareMessage(creds, payload)
  \/ \E creds \in Held, payload \in ShareInputs : WhatsappLink(creds, payload)
  \/ \E creds \in Held, payload \in ShareInputs : WhatsappSendDirect(creds, payload)
  \/ \E creds \in Held, args \in ShareUpdateInputs : UpdateConsultation(creds, args)

SpecShare == Init /\ [][NextShare]_vars

(* Partial update of consultations *)

NextUpdate ==
  \/ \E payload \in UpdateRegisterInputs : Register(payload)
  \/ \E payload \in UpdateLoginInputs : Login(payload)
  \/ \E creds \in Held :
        Len(patients) < MaxSharePatients /\ CreatePatient(creds, PatientPayload(None))
  \/ \E creds \in Held, payload \in ShareAssignInputs : AssignPatient(creds, payload)
  \/ \E creds \in Held, payload \in ShareScheduleInputs :
        ScheduleConsultation(creds, payload, ShareRoom)
  \/ \E creds \in Held, args \in UpdateInputs : UpdateConsultation(creds, args)

SpecUpdate == Init /\ [][NextUpdate]_vars

(* WhatsApp links *)

NextLink ==
  \/ Register(RegisterPayload(EmailA, "sales"))
  \/ Login([email |-> EmailA, password |-> Password])
  \/ \E creds \in Held, contact \in ContactInputs :
        Len(patients) < MaxSharePatients /\ CreatePatient(creds, PatientPayload(contact))
  \/ \E creds \in Held, payload \in LinkScheduleInputs :
        Len(consultations) < MaxShareCons /\ ScheduleConsultation(creds, payload, ShareRoom)
  \/ \E creds \in Held, payload \in LinkInputs : WhatsappLink(creds, payload)
  \/ \E creds \in Held, payload \in LinkInputs : WhatsappSendDirect(creds, payload)

SpecLink == Init /\ [][NextLink]_vars

(* Concurrent registrations *)

NextReg ==
  \/ \E sid \in 1..MaxInflight, payload \in RegRegisterInputs : RegisterBegin(sid, payload)
  \/ \E sid \in 1..MaxInflight : RegisterCommit(sid)

SpecReg == Init /\ [][NextReg]_vars

(* Tokens and their expiry *)

NextAuth ==
  \/ \E payload \in AuthRegisterInputs : Register(payload)
  \/ \E payload \in AuthLoginInputs : Login(payload)
  \/ Tick
  \/ \E creds \in AnyCredentials : CreatePatient(creds, PatientPayload(None))
  \/ \E creds \in AnyCredentials : ListUsers(creds, None)

SpecAuth == Init /\ [][NextAuth]_vars

(* Assignments over the life of patients and consultations *)

NextAssignment ==
  \/ \E payload \in RegisterInputs : Register(payload)
  \/ \E payload \in LoginInputs : Login(payload)
  \/ \E creds \in Held : CreatePatient(creds, PatientPayload(None))
  \/ \E creds \in Held, payload \in AssignInputs : AssignPatient(creds, payload)
  \/ \E creds \in Held, payload \in ShareScheduleInputs :
        Len(consultations) < MaxShareCons /\ ScheduleConsultation(creds, payload, ShareRoom)
  \/ \E creds \in Held, args \in ShareUpdateInputs : UpdateConsultation(creds, args)

SpecAssignment == Init /\ [][NextAssignment]_vars

(* Concurrent assignments *)

NextRace ==
  \/ \E payload \in RaceRegisterInputs : Register(payload)
  \/ Login([email |-> EmailA, password |-> Password])
  \/ \E creds \in Held : CreatePatient(creds, PatientPayload(None))
  \/ \E sid \in 1..MaxInflight, creds \in Held, payload \in ConsAssignInputs :
        AssignBegin(sid, creds, payload)
  \/ \E sid \in 1..MaxInflight : AssignCommit(sid)

SpecRace == Init /\ [][NextRace]_vars

-----------------------------------------------------------------------------
(* Vocabulary of the properties *)

\* the registered user a bearer value stands for, if it is a valid token
Caller(creds) ==
  IF /\ creds # None
     /\ Get(creds).signed
     /\ Get(creds).exp >= now
     /\ \E u \in Rows(users) : Get(creds).sub = Some(u.email)
    THEN Some(CHOOSE u \in Rows(users) : Get(creds).sub = Some(u.email))
    ELSE None

CallerHasRole(creds, roles) ==
  ~IsNone(Caller(creds)) /\ Get(Caller(creds)).role \in roles

Assignments == [i \in 1..Len(patients) |-> patients[i].assigned_doctor_email]

IsDoctorEmail(raw) ==
  \E d \in Rows(users) : d.email = NormalizeEmail(raw) /\ d.role = "doctor"

-----------------------------------------------------------------------------
\* C1: list-patients returns to a doctor exactly the patients whose
\* assigned_doctor_email is the doctor's email, to a sales user every patient,
\* and is Forbidden for a caller of any other role.
C1_ListPatientsByRole ==
  (resp.op = "list_patients" /\ ~IsNone(Caller(resp.creds))) =>
    LET u == Get(Caller(resp.creds))
        mine == {p \in Rows(patients) : p.assigned_doctor_email = Some(u.email)}
    IN CASE u.role = "doctor" ->
              /\ resp.status = Ok
              /\ Rows(resp.body) = mine
              /\ Len(resp.body) = Cardinality(mine)
         [] u.role = "sales" ->
              /\ resp.status = Ok
              /\ Rows(resp.body) = Rows(patients)
              /\ Len(resp.body) = Len(patients)
         [] OTHER -> resp.status = Forbidden

\* a doctor lists one patient while another patient, assigned to a different
\* doctor, is kept out of the list
C1_Witness ==
  /\ resp.op = "list_patients"
  /\ CallerHasRole(resp.creds, {"doctor"})
  /\ Len(resp.body) = 1
  /\ \E p \in Rows(patients) :
       /\ ~IsNone(p.assigned_doctor_email)
       /\ p.assigned_doctor_email # Some(Get(Caller(resp.creds)).email)

\* C3 (as amended): an authenticated assign call fails with Forbidden when the
\* caller is not sales, else with NotFound when the patient id does not exist,
\* else with InvalidRequest when the normalized doctor_email names no user of
\* role doctor; in each of these cases no patient's assignment changes.
C3_AssignErrorsKeepAssignment ==
  [][(resp'.op = "assign_patient" /\ ~IsNone(Caller(resp'.creds))) =>
      LET sales == Get(Caller(resp'.creds)).role = "sales"
          exists == resp'.args.patient_id \in 1..Len(patients)
          doctorOk == IsDoctorEmail(resp'.args.doctor_email)
      IN /\ ~sales => resp'.status = Forbidden
         /\ (sales /\ ~exists) => resp'.status = NotFound
         /\ (sales /\ exists /\ ~doctorOk) => resp'.status = BadRequest
         /\ (~sales \/ ~exists \/ ~doctorOk) => Assignments' = Assignments
         /\ (sales /\ exists /\ doctorOk) => resp'.status = Ok
    ]_vars

\* a sales user names a registered non-doctor for an assigned patient: 400
C3_Witness ==
  /\ resp.op = "assign_patient"
  /\ CallerHasRole(resp.creds, {"sales"})
  /\ resp.status = BadRequest
  /\ resp.args.patient_id \in 1..Len(patients)
  /\ ~IsNone(patients[resp.args.patient_id].assigned_doctor_email)
  /\ ~IsNone(UserByEmail(NormalizeEmail(resp.args.doctor_email)))

\* C3 as first stated: InvalidRequest whenever a sales user names no doctor,
\* NotFound whenever the patient id does not exist
C3_AsStated ==
  [][(resp'.op = "assign_patient" /\ ~IsNone(Caller(resp'.creds))) =>
      LET sales == Get(Caller(resp'.creds)).role = "sales"
          exists == resp'.args.patient_id \in 1..Len(patients)
          doctorOk == IsDoctorEmail(resp'.args.doctor_email)
      IN /\ (sales /\ ~doctorOk) => resp'.status = BadRequest
         /\ (sales /\ ~exists) => resp'.status = NotFound
         /\ ~sales => resp'.status = Forbidden
         /\ (~sales \/ ~exists \/ ~doctorOk) => Assignments' = Assignments
    ]_vars

\* C4: schedule-consultation for an existing patient P succeeds for a sales
\* caller and for the doctor P is assigned to, adding exactly one consultation
\* for P with status pending and a non-empty video URL; it is Forbidden for any
\* other doctor (also when P is unassigned) and any other role, NotFound when P
\* does not exist, and a failure creates no consultation.
C4_ScheduleByRoleAndAssignment ==
  [][(resp'.op = "schedule_consultation" /\ ~IsNone(Caller(resp'.creds))) =>
      LET u == Get(Caller(resp'.creds))
          id == resp'.args.patient_id
          exists == id \in 1..Len(patients)
          allowed == \/ u.role = "sales"
                     \/ /\ u.role = "doctor"
                        /\ patients[id].assigned_doctor_email = Some(u.email)
      IN /\ ~exists => (resp'.status = NotFound /\ consultations' = consultations)
         /\ (exists /\ ~allowed) =>
              (resp'.status = Forbidden /\ consultations' = consultations)
         /\ (exists /\ allowed) =>
              /\ resp'.status = Ok
              /\ Len(consultations') = Len(consultations) + 1
              /\ SubSeq(consultations', 1, Len(consultations)) = consultations
              /\ LET c == consultations'[Len(consultations')]
                 IN /\ c.patient_id = id
                    /\ c.status = Pending
                    /\ Len(c.video_url) > 0
                    /\ resp'.body = c
    ]_vars

\* the assigned doctor has scheduled a consultation for the patient
C4_Witness ==
  /\ resp.op = "schedule_consultation"
  /\ CallerHasRole(resp.creds, {"doctor"})
  /\ resp.status = Ok
  /\ Len(consultations) >= 1
  /\ consultations[Len(consultations)] = resp.body
  /\ patients[resp.body.patient_id].assigned_doctor_email
       = Some(Get(Caller(resp.creds)).email)

\* C5: any two different consultations have different video URLs.
C5_DistinctVideoUrls ==
  \A i, j \in 1..Len(consultations) :
     i # j => consultations[i].video_url # consultations[j].video_url

\* C6: list-consultations returns to a doctor exactly the consultations whose
\* patient is currently assigned to that doctor, whoever scheduled them, to a
\* sales user every consultation, and is Forbidden for any other role.
C6_ListConsultationsByAssignment ==
  (resp.op = "list_consultations" /\ ~IsNone(Caller(resp.creds))) =>
    LET u == Get(Caller(resp.creds))
        mine == {c \in Rows(consultations) :
                   patients[c.patient_id].assigned_doctor_email = Some(u.email)}
    IN CASE u.role = "doctor" ->
              /\ resp.status = Ok
              /\ Rows(resp.body) = mine
              /\ Len(resp.body) = Cardinality(mine)
         [] u.role = "sales" ->
              /\ resp.status = Ok
              /\ Rows(resp.body) = Rows(consultations)
              /\ Len(resp.body) = Len(consultations)
         [] OTHER -> resp.status = Forbidden

\* after a reassignment, a doctor is listed a consultation that another doctor
\* scheduled
C6_Witness ==
  /\ resp.op = "list_consultations"
  /\ CallerHasRole(resp.creds, {"doctor"})
  /\ resp.status = Ok
  /\ \E c \in Rows(resp.body) :
       /\ c.created_by # Get(Caller(resp.creds)).email
       /\ \E d \in Rows(users) : d.email = c.created_by /\ d.role = "doctor"

\* the consultation operations guarded by the visibility rule
ConsultationOps ==
  {"share_message", "whatsapp_link", "whatsapp_send_direct", "update_consultation"}

\* C2: an operation on an existing consultation is permitted only to a sales
\* user or to the doctor the consultation's patient is assigned to; every other
\* caller, an admin included, is denied with Forbidden.
C2_OnlySalesOrAssignedDoctor ==
  (/\ resp.op \in ConsultationOps
   /\ ~IsNone(Caller(resp.creds))
   /\ resp.args.consultation_id \in 1..Len(consultations)) =>
    LET u == Get(Caller(resp.creds))
        p == patients[consultations[resp.args.consultation_id].patient_id]
        allowed == \/ u.role = "sales"
                   \/ u.role = "doctor" /\ p.assigned_doctor_email = Some(u.email)
    IN ~allowed => resp.status = Forbidden

\* C7: update-consultation changes doctor_notes only when notes are given and
\* status only when a status is given, touches no other field and no other
\* consultation, and changes nothing when it fails.
C7_PartialUpdate ==
  [][resp'.op = "update_consultation" =>
      LET a == resp'.args
          id == a.consultation_id
      IN /\ resp'.status # Ok => consultations' = consultations
         /\ (~IsNone(Caller(resp'.creds)) /\ id \notin 1..Len(consultations)) =>
              resp'.status = NotFound
         /\ resp'.status = Ok =>
              /\ Len(consultations') = Len(consultations)
              /\ \A i \in 1..Len(consultations) :
                   i # id => consultations'[i] = consultations[i]
              /\ resp'.body = consultations'[id]
              /\ [consultations'[id] EXCEPT !.doctor_notes = None, !.status = <<>>]
                   = [consultations[id] EXCEPT !.doctor_notes = None, !.status = <<>>]
              /\ IsNone(a.notes) =>
                   consultations'[id].doctor_notes = consultations[id].doctor_notes
              /\ IsNone(a.status) =>
                   consultations'[id].status = consultations[id].status
              /\ (~IsNone(a.notes) /\ Get(a.notes) # <<>>) =>
                   consultations'[id].doctor_notes = Some(Strip(Get(a.notes)))
              /\ ~IsNone(a.status) =>
                   consultations'[id].status = Lower(Get(a.status))
    ]_vars

\* a status-only update of a consultation that has notes: the notes are kept
C7_Witness ==
  /\ resp.op = "update_consultation"
  /\ resp.status = Ok
  /\ IsNone(resp.args.notes)
  /\ ~IsNone(resp.args.status)
  /\ ~IsNone(consultations[resp.args.consultation_id].doctor_notes)
  /\ consultations[resp.args.consultation_id].status = Lower(Get(resp.args.status))
  /\ Len(consultations) > 1

\* C8: at most one user per normalized email, whatever the interleaving of
\* register calls; a register call whose normalized email is taken gets the
\* "already registered" error and leaves the users table as it was.
C8_UniqueNormalizedEmail ==
  [][/\ \A i, j \in 1..Len(users') :
          i # j => NormalizeEmail(users'[i].email) # NormalizeEmail(users'[j].email)
     /\ resp'.op = "register" =>
          LET taken == \E u \in Rows(users) : u.email = NormalizeEmail(resp'.args.email)
          IN /\ taken =>
                  /\ resp'.status = BadRequest
                  /\ resp'.body = "Email already registered"
                  /\ users' = users
             /\ ~taken =>
                  /\ resp'.status = Created
                  /\ Len(users') = Len(users) + 1
                  /\ SubSeq(users', 1, Len(users)) = users
                  /\ users'[Len(users')].email = NormalizeEmail(resp'.args.email)
    ]_vars

\* a register call for another spelling of a registered email, with another
\* name and role, was refused while a second call was still in flight
C8_Witness ==
  /\ resp.op = "register"
  /\ resp.status = BadRequest
  /\ inflight # {}
  /\ \E u \in Rows(users) :
       /\ u.email = NormalizeEmail(resp.args.email)
       /\ u.email # resp.args.email
       /\ u.name # resp.args.name
       /\ u.role # resp.args.role

\* the authenticated operations of the token scenario
AuthOps == {"create_patient", "list_users"}

DbUnchanged ==
  /\ users' = users /\ patients' = patients /\ consultations' = consultations

\* C9: login issues a token for the user's email and role that expires 60
\* minutes later; an authenticated operation presented with it before then
\* acts for exactly that stored user, and after then is Unauthorized; a
\* request with no token, or with a token that is badly signed, has no
\* subject, or names no stored user, is Unauthorized and changes no table.
C9_TokenWindow ==
  [][/\ (resp'.op = "login" /\ resp'.status = Ok) =>
          \E u \in Rows(users) :
             /\ u.email = NormalizeEmail(resp'.args.email)
             /\ resp'.body.sub = Some(u.email)
             /\ resp'.body.role = u.role
             /\ resp'.body.exp = now + 60
             /\ token' = Some(resp'.body)
     /\ resp'.op \in AuthOps =>
          IF IsNone(resp'.creds) THEN resp'.status = Unauthorized /\ DbUnchanged
          ELSE LET tok == Get(resp'.creds)
                   named == {u \in Rows(users) : tok.sub = Some(u.email)}
               IN IF ~tok.signed \/ named = {}
                    THEN resp'.status = Unauthorized /\ DbUnchanged
                  ELSE /\ now > tok.exp => (resp'.status = Unauthorized /\ DbUnchanged)
                       /\ now < tok.exp =>
                            \E u \in named :
                               /\ u.role = tok.role
                               /\ resp'.op = "list_users" => resp'.status = Ok
                               /\ resp'.op = "create_patient" =>
                                    IF u.role = "sales"
                                      THEN /\ resp'.status = Ok
                                           /\ resp'.body.created_by = u.email
                                      ELSE resp'.status = Forbidden
    ]_vars

\* the held token, issued by login, is refused after its 60 minutes
C9_Witness ==
  /\ resp.op \in AuthOps
  /\ resp.creds = token
  /\ ~IsNone(token)
  /\ now > Get(token).exp
  /\ resp.status = Unauthorized
  /\ \E u \in Rows(users) : Get(token).sub = Some(u.email)

\* the link operations
LinkOps == {"whatsapp_link", "whatsapp_send_direct"}

\* a string without its "+" and " " characters
Digits(str) == LET keep(c) == c \notin {"+", " "} IN SelectSeq(str, keep)

\* C10: the destination phone of a link is the override when a non-empty one
\* is given, else the patient's contact without "+" and spaces; when that
\* leaves no phone number the call fails with InvalidRequest, so no link ever
\* has an empty destination.
C10_PhoneResolution ==
  (/\ resp.op \in LinkOps
   /\ ~IsNone(Caller(resp.creds))
   /\ resp.args.consultation_id \in 1..Len(consultations)) =>
    LET override == resp.args.phone_e164
        contact == patients[consultations[resp.args.consultation_id].patient_id].contact
        given == ~IsNone(override) /\ Len(Get(override)) > 0
        stripped == IF IsNone(contact) THEN <<>> ELSE Digits(Get(contact))
    IN /\ given => (resp.status = Ok /\ resp.body.phone = Get(override))
       /\ (~given /\ stripped = <<>>) => resp.status = BadRequest
       /\ (~given /\ stripped # <<>>) =>
            (resp.status = Ok /\ resp.body.phone = stripped)
       /\ resp.status = Ok => Len(resp.body.phone) > 0

\* contact "+91 98765 43210" and no override give the phone "919876543210"
C10_Witness ==
  /\ resp.op \in LinkOps
  /\ resp.status = Ok
  /\ IsNone(resp.args.phone_e164)
  /\ patients[consultations[resp.args.consultation_id].patient_id].contact = Some(Contact)
  /\ resp.body.phone = <<"9", "1", "9", "8", "7", "6", "5", "4", "3", "2", "1", "0">>

\* the doctors an assignment may name: stored emails of users of role doctor
DoctorEmails == {u.email : u \in {d \in Rows(users) : d.role = "doctor"}}

\* C11: each patient's assigned_doctor_email is unset or is the stored,
\* normalized email of an existing user of role doctor; a patient is created
\* unassigned; an assignment changes only in a successful assign call by a
\* sales user for that patient; the rows of existing users never change.
C11_AssignmentReferencesDoctor ==
  /\ [](\A p \in Rows(patients) :
          \/ IsNone(p.assigned_doctor_email)
          \/ /\ Get(p.assigned_doctor_email) \in DoctorEmails
             /\ Get(p.assigned_doctor_email) = NormalizeEmail(Get(p.assigned_doctor_email)))
  /\ [][/\ Len(patients') >= Len(patients)
        /\ \A i \in 1..Len(patients') :
             IF i > Len(patients)
               THEN IsNone(patients'[i].assigned_doctor_email)
               ELSE patients'[i].assigned_doctor_email # patients[i].assigned_doctor_email =>
                      /\ resp'.op = "assign_patient"
                      /\ resp'.status = Ok
                      /\ CallerHasRole(resp'.creds, {"sales"})
                      /\ resp'.args.patient_id = i
                      /\ patients'[i].assigned_doctor_email =
                           Some(NormalizeEmail(resp'.args.doctor_email))
        /\ Len(users') >= Len(users)
        /\ \A i \in 1..Len(users) : users'[i] = users[i]
       ]_vars

\* a consultation is updated while one patient is assigned to a doctor who
\* was named by an un-normalized email and another patient is still unassigned
C11_Witness ==
  /\ resp.op = "update_consultation"
  /\ resp.status = Ok
  /\ \E p \in Rows(patients) : p.assigned_doctor_email = Some(EmailC)
  /\ \E p \in Rows(patients) : IsNone(p.assigned_doctor_email)

\* C12: when an assign call commits after another call for the same patient,
\* naming a different doctor, committed while it was in flight, it succeeds,
\* the patient is assigned to the doctor it named (the last commit wins), and
\* no other patient's assignment changes.
C12_LastCommitWins ==
  [][\A req \in inflight :
       (/\ req \notin inflight'
        /\ resp.op = "assign_patient"
        /\ resp.status = Ok
        /\ resp.args.patient_id = req.patient_id
        /\ NormalizeEmail(resp.args.doctor_email) # req.doctor) =>
          /\ resp'.op = "assign_patient"
          /\ resp'.status = Ok
          /\ patients'[req.patient_id].assigned_doctor_email = Some(req.doctor)
          /\ \A i \in 1..Len(patients) :
               i # req.patient_id =>
                 patients'[i].assigned_doctor_email = patients[i].assigned_doctor_email
    ]_vars

====
